---- MODULE Spec2Model ----
(***************************************************************************)
(* State-machine model of src/src/wallet.py (class CryptoWallet): the      *)
(* custodial key store, the SQLite ledger (tables wallets, transactions),  *)
(* the key-material file and the Ethereum RPC gateway as seen by the       *)
(* public operations create_wallet, get_balance, send_transaction,         *)
(* get_wallet_info and get_transaction_history.                            *)
(*                                                                         *)
(* Each public operation runs to completion (one action per call).  The    *)
(* outcome of every external step of a call (SQLite, RPC, random key       *)
(* generation) is an input of the action, drawn from a small set.          *)
(***************************************************************************)
EXTENDS Integers, Sequences, FiniteSets, TLC

\* ------------------------------------------------------------------ bounds
\* Number of CryptoWallet instances constructed one after another.
MaxInstances == 2
\* Number of raw transactions the gateway accepts before it rejects the rest.
MaxBroadcasts == 2
\* Number of rows of table transactions when the history query is examined
\* as a function of the table.
MaxRows == 3

\* --------------------------------------------------------- value universes
\* user_id values a caller may pass: two well-formed ids, the empty string,
\* and Python None (not a string).
NoneId == "<None>"
Users == {"alice", "bob"}
UserIds == Users \cup {"", NoneId}

\* Private keys Account.create() may draw, and the pseudo-value of a failed draw.
PrivKeys == {"k1", "k2"}
GenFail == "<entropy failure>"

\* Fernet.generate_key() draws 32 random bytes: every draw is a key never
\* drawn before.  The n-th key drawn is named <<"fernet", n>>.
GenerateKey(drawn) == <<"fernet", drawn + 1>>
NoFile == <<"absent">>

\* Recipient strings a caller may pass: one well-formed address, one malformed.
Recipients == {"0xR", "not-an-address"}
\* amount_eth values a caller may pass.
Amounts == {-1, 0, 1}

\* What eth_getBalance may answer, in ether units (see to_wei).
BalanceAnswers == {0, 1}

\* The outcome of every external step of one call.
Envs == [dbRead : BOOLEAN, dbWrite : BOOLEAN, balOk : BOOLEAN, bal : BalanceAnswers,
         gas : BOOLEAN, nonce : BOOLEAN, chain : BOOLEAN, bcast : BOOLEAN]

\* A failed balance query answers nothing.
WellFormedEnv(e) == ~e.balOk => e.bal = 0

\* The steps whose failure ends a call (the others are swallowed).
Faults(e) ==
    {f \in {"dbWrite", "gas", "nonce", "chain", "bcast"} :
        \/ f = "dbWrite" /\ ~e.dbWrite
        \/ f = "gas" /\ ~e.gas
        \/ f = "nonce" /\ ~e.nonce
        \/ f = "chain" /\ ~e.chain
        \/ f = "bcast" /\ ~e.bcast}

\* The steps each operation can reach; at most one call-ending failure is
\* drawn per call, since the call ends at the first.
ReadEnvs == {e \in Envs : WellFormedEnv(e) /\ e.balOk /\ e.bal = 0 /\ Faults(e) = {}}
InfoEnvs == {e \in Envs : WellFormedEnv(e) /\ Faults(e) = {}}
CreateEnvs == {e \in Envs : WellFormedEnv(e) /\ Faults(e) \subseteq {"dbWrite"}}
\* send_transaction never reads the balance its wallet lookup fetched.
SendEnvs == {e \in Envs : WellFormedEnv(e) /\ e.bal = 0 /\ Cardinality(Faults(e)) <= 1}

EnvAllOk(env) ==
    /\ env.dbRead /\ env.dbWrite /\ env.balOk
    /\ env.gas /\ env.nonce /\ env.chain /\ env.bcast

\* ------------------------------------------------------- library functions
\* eth_account: the address derived from a private key.
AddressOf(pk) ==
    CASE pk = "k1" -> "0xA1"
      [] pk = "k2" -> "0xA2"

WalletAddresses == {AddressOf(pk) : pk \in PrivKeys}

\* web3.is_address: a local syntactic check, no RPC.
is_address(a) == a \in WalletAddresses \cup {"0xR"}

\* web3.to_checksum_address: mixed-case re-encoding of the same address.
to_checksum_address(a) == <<"checksum", a>>

\* web3.to_wei(x, "ether") / web3.from_wei(w, "ether"): multiplication and
\* division by 10^18.  10^18 exceeds TLC's integers, so a wei amount is kept
\* as the tagged pair <<"wei", e>> standing for e * 10^18.
to_wei(eth) == <<"wei", eth>>
from_wei(w) == w[2]

\* account.key.hex().encode(): the hex text of the key bytes.
Hex(pk) == <<"hex", pk>>
UnHex(h) == h[2]

\* Fernet: authenticated encryption; decrypt fails unless the key is the
\* one that encrypted.
Encrypt(fkey, plain) == [fkey |-> fkey, plain |-> plain]
DecryptOk(fkey, token) == token.fkey = fkey
Decrypt(fkey, token) == token.plain

\* base64.b64encode(...).decode('utf-8') and base64.b64decode.
B64Encode(x) == <<"b64", x>>
B64Decode(s) == s[2]

\* ----------------------------------------------------------------- state
VARIABLES
    keyFile,       \* contents of "encryption.key": NoFile or a Fernet key
    keyWrites,     \* how many times a key was generated and written to the file
    dbTables,      \* whether the two tables exist in wallets.db
    instances,     \* sequence of constructed services: each one's encryption_key
    wallets,       \* table wallets: sequence of rows in rowid order
    transactions,  \* table transactions: sequence of rows in rowid order
    chainNonce,    \* gateway: transaction count per wallet address
    mempool,       \* gateway: hashes of the raw transactions it accepted
    last,          \* the most recent call: inputs, result, I/O it performed,
                   \* and the tables and mempool as they were when it began
    prevCreated,   \* in the state after a call: the user_id and address the
                   \* call before it returned, if that was a create_wallet
                   \* returning a summary; else NoCreated
    calls          \* per thread, the call it is executing step by step (used
                   \* where calls of two threads interleave; Idle otherwise)

vars == <<keyFile, keyWrites, dbTables, instances, wallets, transactions,
          chainNonce, mempool, last, prevCreated, calls>>

NoAddress == "<no address>"
NoHash == <<"nohash">>
None == [none |-> TRUE]

\* The record kept of a call.  status is "ok"/"none" for the operations
\* returning a value or None, "success"/"error" for send_transaction, and
\* "raised" when an exception leaves the operation.
Call(op, user, recipient, amount, status, message, tx_hash, address, value, io, envOk) ==
    [op |-> op, user |-> user, recipient |-> recipient, amount |-> amount,
     status |-> status, message |-> message, tx_hash |-> tx_hash,
     address |-> address, value |-> value, io |-> io, envOk |-> envOk,
     pre |-> [wallets |-> wallets, transactions |-> transactions,
              mempool |-> mempool]]

NoCreated == [user |-> "", address |-> NoAddress]

\* Two threads of one process (or two processes on one database and key file).
Threads == {"t1", "t2"}

\* A thread that is executing no call.
Idle ==
    [op |-> "none", pc |-> "idle", user |-> "", recipient |-> "", amount |-> 0,
     pk |-> "", seen |-> FALSE, raced |-> FALSE, nonce |-> 0, sent |-> FALSE, accepted |-> FALSE,
     status |-> "", message |-> "", address |-> NoAddress, tx_hash |-> NoHash,
     key |-> NoFile]

\* What the call recorded in `last` created, for the call that follows it.
CreatedBy(call) ==
    IF call.op = "create_wallet" /\ call.status = "ok"
    THEN [user |-> call.user, address |-> call.address]
    ELSE NoCreated

NoCall ==
    [op |-> "start", user |-> "", recipient |-> "", amount |-> 0, status |-> "ok",
     message |-> "", tx_hash |-> NoHash, address |-> NoAddress, value |-> None,
     io |-> <<>>, envOk |-> TRUE,
     pre |-> [wallets |-> <<>>, transactions |-> <<>>, mempool |-> <<>>]]

\* ------------------------------------------------------------ construction
\* _setup_database: CREATE TABLE IF NOT EXISTS for both tables; existing rows
\* are kept.
_setup_database(tables) == TRUE

\* Variant: the existence test of the key file dropped, a fresh key is
\* generated and written by every construction.
load_or_create_AlwaysGenerates(file, drawn) ==
    LET key == GenerateKey(drawn) IN [key |-> key, file |-> key, writes |-> 1]

\* _load_or_create_encryption_key: the key read from the file when it
\* exists, else a fresh key written to it.  drawn counts the keys generated
\* so far.
_load_or_create_encryption_key(file, drawn) ==
    IF file # NoFile
    THEN [key |-> file, file |-> file, writes |-> 0]
    ELSE LET key == GenerateKey(drawn) IN
         [key |-> key, file |-> key, writes |-> 1]

\* Variant: the database and the key file are set up before the connection
\* check.
NewCryptoWallet_ConnectsLate(rpc_url_ok, connected) ==
    /\ Len(instances) < MaxInstances
    /\ IF ~rpc_url_ok
       THEN /\ last' = Call("init", "", "", 0, "raised", "ValueError: Invalid RPC URL",
                            NoHash, NoAddress, None, <<>>, FALSE)
            /\ UNCHANGED <<keyFile, keyWrites, dbTables, instances>>
       ELSE LET k == _load_or_create_encryption_key(keyFile, keyWrites) IN
            /\ dbTables' = _setup_database(dbTables)
            /\ keyFile' = k.file
            /\ keyWrites' = keyWrites + k.writes
            /\ IF ~connected
               THEN /\ last' = Call("init", "", "", 0, "raised", "ConnectionError",
                                    NoHash, NoAddress, None,
                                    <<"ledger_write", "key_file", "rpc_is_connected">>,
                                    FALSE)
                    /\ UNCHANGED instances
               ELSE /\ instances' = Append(instances, k.key)
                    /\ last' = Call("init", "", "", 0, "ok", "", NoHash, NoAddress, None,
                                    <<"ledger_write", "key_file", "rpc_is_connected">>,
                                    TRUE)
    /\ prevCreated' = CreatedBy(last)
    /\ UNCHANGED calls
    /\ UNCHANGED <<wallets, transactions, chainNonce, mempool>>

\* CryptoWallet.__init__(rpc_url, db_path): rpc_url_ok is the validity of the
\* url, connected the answer of web3.is_connected().
NewCryptoWallet(rpc_url_ok, connected) ==
    /\ Len(instances) < MaxInstances
    /\ IF ~rpc_url_ok
       THEN /\ last' = Call("init", "", "", 0, "raised", "ValueError: Invalid RPC URL",
                            NoHash, NoAddress, None, <<>>, FALSE)
            /\ UNCHANGED <<keyFile, keyWrites, dbTables, instances>>
       ELSE IF ~connected
       THEN /\ last' = Call("init", "", "", 0, "raised", "ConnectionError",
                            NoHash, NoAddress, None, <<"rpc_is_connected">>, FALSE)
            /\ UNCHANGED <<keyFile, keyWrites, dbTables, instances>>
       ELSE LET k == _load_or_create_encryption_key(keyFile, keyWrites) IN
            /\ dbTables' = _setup_database(dbTables)
            /\ keyFile' = k.file
            /\ keyWrites' = keyWrites + k.writes
            /\ instances' = Append(instances, k.key)
            /\ last' = Call("init", "", "", 0, "ok", "", NoHash, NoAddress, None,
                            <<"rpc_is_connected", "ledger_write", "key_file">>, TRUE)
    /\ prevCreated' = CreatedBy(last)
    /\ UNCHANGED calls
    /\ UNCHANGED <<wallets, transactions, chainNonce, mempool>>

\* ------------------------------------------------------------------ ledger
\* Column created_at is TIMESTAMP DEFAULT CURRENT_TIMESTAMP and no INSERT
\* names it: SQLite stores the text 'YYYY-MM-DD HH:MM:SS'.
CurrentTimestamp == "2024-01-01 00:00:00"

\* created_at carries no NOT NULL constraint: a row may hold NULL there, which
\* is fetched as Python None.  No INSERT of this program stores it.
Null == "<NULL>"

\* sqlite3.connect(self.db_path) is called without detect_types, so no
\* converter runs and a TIMESTAMP column is fetched as the stored str.
DetectTypes == FALSE
FetchedType(created_at) == IF DetectTypes THEN "datetime" ELSE "str"

\* Python: only datetime objects have an isoformat method.
HasIsoformat(type) == type = "datetime"

\* Variant: table wallets declared without PRIMARY KEY on user_id.
InsertWallet_NoPrimaryKey(table, row, dbOk) ==
    IF dbOk /\ \A i \in 1..Len(table) : table[i].address # row.address
    THEN [ok |-> TRUE, table |-> Append(table, row)]
    ELSE [ok |-> FALSE, table |-> table]

\* Variant: INSERT OR REPLACE INTO wallets, the row of user_id is replaced.
InsertWallet_Replaces(table, row, dbOk) ==
    IF dbOk
    THEN [ok |-> TRUE,
          table |-> Append(SelectSeq(table, LAMBDA r : /\ r.user_id # row.user_id
                                                       /\ r.address # row.address),
                           row)]
    ELSE [ok |-> FALSE, table |-> table]

\* INSERT INTO wallets under the schema: user_id TEXT PRIMARY KEY,
\* address TEXT NOT NULL UNIQUE.  A violated constraint, like a failing
\* database, raises and leaves the table as it was.
InsertWallet(table, row, dbOk) ==
    IF /\ dbOk
       /\ \A i \in 1..Len(table) : table[i].user_id # row.user_id
       /\ \A i \in 1..Len(table) : table[i].address # row.address
    THEN [ok |-> TRUE, table |-> Append(table, row)]
    ELSE [ok |-> FALSE, table |-> table]

\* SELECT ... FROM wallets WHERE user_id = ?  (a NULL parameter equals no row).
SelectWallet(table, user_id) ==
    IF user_id = NoneId THEN <<>>
    ELSE SelectSeq(table, LAMBDA r : r.user_id = user_id)

\* INSERT INTO transactions under the schema: tx_hash TEXT PRIMARY KEY.
InsertTransaction(table, row, dbOk) ==
    IF dbOk /\ \A i \in 1..Len(table) : table[i].tx_hash # row.tx_hash
    THEN [ok |-> TRUE, table |-> Append(table, row)]
    ELSE [ok |-> FALSE, table |-> table]

\* Variant: the web3.is_address test dropped, the node answers for any string.
get_balance_SkipsValidation(address, env) ==
    IF ~env.balOk
    THEN [value |-> 0, io |-> <<"rpc_balance">>]
    ELSE [value |-> from_wei(to_wei(env.bal)), io |-> <<"rpc_balance">>]

\* ------------------------------------------------------------- get_balance
\* Returns the balance in ether, 0.0 on an invalid address or a failing RPC.
get_balance(address, env) ==
    IF ~is_address(address)
    THEN [value |-> 0, io |-> <<>>]
    ELSE IF ~env.balOk
    THEN [value |-> 0, io |-> <<"rpc_balance">>]
    ELSE LET balance_wei == to_wei(env.bal) IN
         [value |-> from_wei(balance_wei), io |-> <<"rpc_balance">>]

\* --------------------------------------------------------- get_wallet_info
\* The row of user_id as a dict, None when there is none or on any exception.
\* The dict is built key by key: the balance is queried before created_at is
\* formatted with created_at.isoformat().
get_wallet_info(user_id, env) ==
    IF ~env.dbRead
    THEN [value |-> None, io |-> <<"ledger_read">>]
    ELSE LET result == SelectWallet(wallets, user_id) IN
         IF result = <<>>
         THEN [value |-> None, io |-> <<"ledger_read">>]
         ELSE LET row == result[1]
                  bal == get_balance(row.address, env)
              IN IF row.created_at = Null
                 THEN \* `... if created_at else None`: isoformat is not called
                      [value |-> [user_id |-> user_id,
                                  address |-> row.address,
                                  balance |-> bal.value,
                                  encrypted_private_key |-> row.encrypted_private_key,
                                  created_at |-> None],
                       io |-> <<"ledger_read">> \o bal.io]
                 ELSE IF HasIsoformat(FetchedType(row.created_at))
                 THEN [value |-> [user_id |-> user_id,
                                  address |-> row.address,
                                  balance |-> bal.value,
                                  encrypted_private_key |-> row.encrypted_private_key,
                                  created_at |-> <<"iso", row.created_at>>],
                       io |-> <<"ledger_read">> \o bal.io]
                 ELSE \* AttributeError, caught at line 178
                      [value |-> None, io |-> <<"ledger_read">> \o bal.io]

\* ----------------------------------------------------------- create_wallet
\* `if not user_id or not isinstance(user_id, str)`.
ValidUserId(user_id) == user_id # "" /\ user_id # NoneId

\* Variant: the balance query of the summary raises on a failing RPC, after
\* the row was committed.
create_wallet_BalanceRaises(cipher, user_id, pk, env) ==
    IF ~ValidUserId(user_id)
    THEN [value |-> None, io |-> <<>>, wallets |-> wallets]
    ELSE LET info == get_wallet_info(user_id, env) IN
         IF info.value # None \/ pk = GenFail
         THEN [value |-> None, io |-> info.io, wallets |-> wallets]
         ELSE LET address == AddressOf(pk)
                  ins == InsertWallet(wallets,
                                      [user_id |-> user_id, address |-> address,
                                       encrypted_private_key |->
                                           B64Encode(Encrypt(cipher, Hex(pk))),
                                       created_at |-> CurrentTimestamp],
                                      env.dbWrite)
                  bal == get_balance(address, env)
              IN IF ~ins.ok
                 THEN [value |-> None, io |-> info.io \o <<"ledger_write">>,
                       wallets |-> wallets]
                 ELSE IF ~env.balOk
                 THEN [value |-> None, io |-> info.io \o <<"ledger_write">> \o bal.io,
                       wallets |-> ins.table]
                 ELSE [value |-> [user_id |-> user_id, address |-> address,
                                  balance |-> bal.value],
                       io |-> info.io \o <<"ledger_write">> \o bal.io,
                       wallets |-> ins.table]

\* cipher is the instance's Fernet key, pk the key Account.create() draws.
\* Returns the summary or None, the I/O performed and the wallets table.
create_wallet(cipher, user_id, pk, env) ==
    IF ~ValidUserId(user_id)
    THEN [value |-> None, io |-> <<>>, wallets |-> wallets]
    ELSE LET info == get_wallet_info(user_id, env) IN
         IF info.value # None
         THEN [value |-> None, io |-> info.io, wallets |-> wallets]
         ELSE IF pk = GenFail
         THEN [value |-> None, io |-> info.io, wallets |-> wallets]
         ELSE LET address == AddressOf(pk)
                  encrypted_key_str == B64Encode(Encrypt(cipher, Hex(pk)))
                  ins == InsertWallet(wallets,
                                      [user_id |-> user_id, address |-> address,
                                       encrypted_private_key |-> encrypted_key_str,
                                       created_at |-> CurrentTimestamp],
                                      env.dbWrite)
                  bal == get_balance(address, env)
              IN IF ~ins.ok
                 THEN [value |-> None, io |-> info.io \o <<"ledger_write">>,
                       wallets |-> wallets]
                 ELSE [value |-> [user_id |-> user_id, address |-> address,
                                  balance |-> bal.value],
                       io |-> info.io \o <<"ledger_write">> \o bal.io,
                       wallets |-> ins.table]

CreateWallet(cipher, user_id, pk, env) ==
    LET r == create_wallet(cipher, user_id, pk, env) IN
    /\ wallets' = r.wallets
    /\ last' = Call("create_wallet", user_id, "", 0,
                    IF r.value = None THEN "none" ELSE "ok", "", NoHash,
                    IF r.value = None THEN NoAddress ELSE r.value.address,
                    r.value, r.io, EnvAllOk(env))
    /\ prevCreated' = CreatedBy(last)
    /\ UNCHANGED calls
    /\ UNCHANGED <<keyFile, keyWrites, dbTables, instances, transactions,
                   chainNonce, mempool>>

GetWalletInfo(cipher, user_id, env) ==
    LET r == get_wallet_info(user_id, env) IN
    /\ last' = Call("get_wallet_info", user_id, "", 0,
                    IF r.value = None THEN "none" ELSE "ok", "", NoHash,
                    IF r.value = None THEN NoAddress ELSE r.value.address,
                    r.value, r.io, EnvAllOk(env))
    /\ prevCreated' = CreatedBy(last)
    /\ UNCHANGED calls
    /\ UNCHANGED <<keyFile, keyWrites, dbTables, instances, wallets, transactions,
                   chainNonce, mempool>>

\* -------------------------------------------------------- send_transaction
\* The gas limit of a plain value transfer.
GasLimit == 21000

\* The module imports os, json, base64, web3, eth_account, typing, sqlite3,
\* cryptography.fernet, logging, dotenv, uuid, datetime: the name `time`,
\* used by int(time.time()), is not bound.
TimeImported == FALSE

\* The hash of the signed transaction, as the gateway returns it.
TxHash(tx, private_key) == <<"tx", AddressOf(private_key), tx.nonce, tx.to, tx.value>>

\* Variant: the gateway counts the nonces other calls hold and have not yet
\* broadcast (a per-account reservation).
get_transaction_count_Reserving(address) ==
    chainNonce[address]
    + Cardinality({t \in Threads : /\ calls[t].op = "send_transaction"
                                   /\ calls[t].pc = "broadcast"
                                   /\ calls[t].address = address})

\* web3.eth.get_transaction_count(address): the account's transaction count
\* at the latest block.
get_transaction_count(address) == chainNonce[address]

\* What leaves the try block: a returned dict, or a raised exception.
Returned(status, message, tx_hash, io, txs, nonces, pool) ==
    [raised |-> FALSE, status |-> status, message |-> message, tx_hash |-> tx_hash,
     io |-> io, transactions |-> txs, chainNonce |-> nonces, mempool |-> pool]
Raised(exc, io, txs, nonces, pool) ==
    [raised |-> TRUE, status |-> "raised", message |-> exc, tx_hash |-> NoHash,
     io |-> io, transactions |-> txs, chainNonce |-> nonces, mempool |-> pool]

\* Lines 143-155: sign, broadcast, record, return.
send_signed(user_id, recipient, amount_eth, env, tx, private_key, io) ==
    LET io1 == io \o <<"rpc_broadcast">>
        accepted == env.bcast /\ Len(mempool) < MaxBroadcasts
        tx_hash == TxHash(tx, private_key)
        pool == Append(mempool, tx_hash)
        sender == AddressOf(private_key)
        nonces == [chainNonce EXCEPT ![sender] = @ + 1]
        ins == InsertTransaction(transactions,
                                 [tx_hash |-> Hex(tx_hash), user_id |-> user_id,
                                  recipient |-> recipient, amount |-> amount_eth,
                                  status |-> "pending"],
                                 env.dbWrite)
    IN IF ~accepted
       THEN Raised("RpcFailure: send_raw_transaction", io1, transactions, chainNonce, mempool)
       ELSE IF ~TimeImported
       THEN Raised("NameError: name 'time' is not defined", io1, transactions, nonces, pool)
       ELSE IF ~ins.ok
       THEN Raised("sqlite3.Error", io1 \o <<"ledger_write">>, transactions, nonces, pool)
       ELSE Returned("success", "", Hex(tx_hash), io1 \o <<"ledger_write">>,
                     ins.table, nonces, pool)

\* Lines 132-141: decrypt the key and build the transaction dict, whose
\* values are evaluated in order: gas price, nonce, chain id.
send_build(cipher, user_id, recipient, amount_eth, env, wallet, io) ==
    LET token == B64Decode(wallet.encrypted_private_key)
        private_key == UnHex(Decrypt(cipher, token))
        tx == [to |-> to_checksum_address(recipient), value |-> to_wei(amount_eth),
               gas |-> GasLimit, nonce |-> get_transaction_count(wallet.address)]
    IN IF ~DecryptOk(cipher, token)
       THEN Raised("InvalidToken", io, transactions, chainNonce, mempool)
       ELSE IF ~env.gas
       THEN Raised("RpcFailure: gas_price", io \o <<"rpc_gas_price">>,
                   transactions, chainNonce, mempool)
       ELSE IF ~env.nonce
       THEN Raised("RpcFailure: get_transaction_count",
                   io \o <<"rpc_gas_price", "rpc_nonce">>,
                   transactions, chainNonce, mempool)
       ELSE IF ~env.chain
       THEN Raised("RpcFailure: chain_id",
                   io \o <<"rpc_gas_price", "rpc_nonce", "rpc_chain_id">>,
                   transactions, chainNonce, mempool)
       ELSE send_signed(user_id, recipient, amount_eth, env, tx, private_key,
                        io \o <<"rpc_gas_price", "rpc_nonce", "rpc_chain_id">>)

\* Variant: the recipient and amount validated after the wallet lookup.
send_try_ValidatesLate(cipher, user_id, recipient, amount_eth, env) ==
    LET info == get_wallet_info(user_id, env) IN
    IF info.value = None
    THEN Returned("error", "Wallet not found", NoHash, info.io,
                  transactions, chainNonce, mempool)
    ELSE IF ~is_address(recipient) \/ amount_eth <= 0
    THEN Raised("Invalid recipient or amount", info.io, transactions, chainNonce, mempool)
    ELSE send_build(cipher, user_id, recipient, amount_eth, env, info.value, info.io)

\* Variant: the `if not wallet` test dropped, so a missing wallet fails at
\* wallet["encrypted_private_key"].
send_try_NoWalletCheck(cipher, user_id, recipient, amount_eth, env) ==
    IF ~is_address(recipient) \/ amount_eth <= 0
    THEN Raised("Invalid recipient or amount", <<>>, transactions, chainNonce, mempool)
    ELSE LET info == get_wallet_info(user_id, env) IN
         IF info.value = None
         THEN Raised("TypeError: 'NoneType' object is not subscriptable", info.io,
                     transactions, chainNonce, mempool)
         ELSE send_build(cipher, user_id, recipient, amount_eth, env, info.value, info.io)

\* Lines 125-155: the body of the try block.
send_try(cipher, user_id, recipient, amount_eth, env) ==
    IF ~is_address(recipient) \/ amount_eth <= 0
    THEN Raised("Invalid recipient or amount", <<>>, transactions, chainNonce, mempool)
    ELSE LET info == get_wallet_info(user_id, env) IN
         IF info.value = None
         THEN Returned("error", "Wallet not found", NoHash, info.io,
                       transactions, chainNonce, mempool)
         ELSE send_build(cipher, user_id, recipient, amount_eth, env, info.value, info.io)

\* Variant: no except clause, what the body raises leaves the method.
send_transaction_Reraises(cipher, user_id, recipient, amount_eth, env) ==
    send_try(cipher, user_id, recipient, amount_eth, env)

\* Variant: the except clause also records the attempt in table transactions.
send_transaction_RecordsFailure(cipher, user_id, recipient, amount_eth, env) ==
    LET r == send_try(cipher, user_id, recipient, amount_eth, env) IN
    IF r.raised
    THEN [r EXCEPT !.raised = FALSE, !.status = "error",
                   !.transactions = Append(@, [tx_hash |-> NoHash, user_id |-> user_id,
                                               recipient |-> recipient,
                                               amount |-> amount_eth,
                                               status |-> "pending"])]
    ELSE r

\* Lines 157-159: `except Exception as e` turns whatever the body raised into
\* {"status": "error", "message": str(e)}.
send_transaction(cipher, user_id, recipient, amount_eth, env) ==
    LET r == send_try(cipher, user_id, recipient, amount_eth, env) IN
    IF r.raised
    THEN [r EXCEPT !.raised = FALSE, !.status = "error"]
    ELSE r

SendTransaction(cipher, user_id, recipient, amount_eth, env) ==
    LET r == send_transaction(cipher, user_id, recipient, amount_eth, env) IN
    /\ transactions' = r.transactions
    /\ chainNonce' = r.chainNonce
    /\ mempool' = r.mempool
    /\ last' = Call("send_transaction", user_id, recipient, amount_eth,
                    r.status, r.message, r.tx_hash, NoAddress, None, r.io,
                    EnvAllOk(env))
    /\ prevCreated' = CreatedBy(last)
    /\ UNCHANGED calls
    /\ UNCHANGED <<keyFile, keyWrites, dbTables, instances, wallets>>

\* -------------------------------------------------- get_transaction_history
\* Variant: the WHERE user_id = ? clause dropped.
SelectTransactions_AllUsers(table, user_id) == table

\* SELECT tx_hash, recipient, amount, timestamp, status FROM transactions
\* WHERE user_id = ?  -- a table scan, rows in rowid order.
SelectTransactions(table, user_id) ==
    IF user_id = NoneId THEN <<>>
    ELSE SelectSeq(table, LAMBDA r : r.user_id = user_id)

\* The rows of user_id as dicts, [] on any exception.
get_transaction_history(user_id, env) ==
    IF ~env.dbRead
    THEN <<>>
    ELSE LET rows == SelectTransactions(transactions, user_id) IN
         [k \in 1..Len(rows) |->
             [tx_hash |-> rows[k].tx_hash, recipient |-> rows[k].recipient,
              amount_eth |-> rows[k].amount, status |-> rows[k].status]]

GetTransactionHistory(cipher, user_id, env) ==
    /\ last' = Call("get_transaction_history", user_id, "", 0, "ok", "", NoHash,
                    NoAddress, get_transaction_history(user_id, env),
                    <<"ledger_read">>, EnvAllOk(env))
    /\ prevCreated' = CreatedBy(last)
    /\ UNCHANGED calls
    /\ UNCHANGED <<keyFile, keyWrites, dbTables, instances, wallets, transactions,
                   chainNonce, mempool>>

\* ------------------------------------------------- get_balance as a call
\* Address strings a caller may pass to get_balance.
BalanceArgs == WalletAddresses \cup Recipients

\* Only the balance RPC is within reach of get_balance.
BalanceEnvs == {e \in InfoEnvs : e.dbRead}

\* The call keeps, beside the returned balance, what the gateway answered.
GetBalance(cipher, address, env) ==
    LET r == get_balance(address, env) IN
    /\ last' = Call("get_balance", "", "", 0, "ok", "", NoHash, address,
                    [balance |-> r.value, answered |-> env.balOk,
                     balance_wei |-> to_wei(env.bal)],
                    r.io, EnvAllOk(env))
    /\ prevCreated' = CreatedBy(last)
    /\ UNCHANGED calls
    /\ UNCHANGED <<keyFile, keyWrites, dbTables, instances, wallets, transactions,
                   chainNonce, mempool>>

\* ------------------------------------------------------------ specification
Init ==
    /\ keyFile = NoFile
    /\ keyWrites = 0
    /\ dbTables = FALSE
    /\ instances = <<>>
    /\ wallets = <<>>
    /\ transactions = <<>>
    /\ chainNonce = [a \in WalletAddresses |-> 0]
    /\ mempool = <<>>
    /\ last = NoCall
    /\ prevCreated = NoCreated
    /\ calls = [t \in Threads |-> Idle]

\* The encryption keys of the services constructed so far: an operation is a
\* method call on one of them.
Ciphers == {instances[i] : i \in 1..Len(instances)}

Next ==
    \/ \E rpc_url_ok \in BOOLEAN, connected \in BOOLEAN :
          NewCryptoWallet(rpc_url_ok, connected)
    \/ \E cipher \in Ciphers, u \in UserIds, pk \in PrivKeys \cup {GenFail},
          env \in CreateEnvs : CreateWallet(cipher, u, pk, env)
    \/ \E cipher \in Ciphers, u \in UserIds, env \in InfoEnvs :
          GetWalletInfo(cipher, u, env)
    \/ \E cipher \in Ciphers, u \in UserIds, r \in Recipients, a \in Amounts,
          env \in SendEnvs : SendTransaction(cipher, u, r, a, env)
    \/ \E cipher \in Ciphers, u \in UserIds, env \in ReadEnvs :
          GetTransactionHistory(cipher, u, env)
    \/ \E cipher \in Ciphers, a \in BalanceArgs, env \in BalanceEnvs :
          GetBalance(cipher, a, env)

Spec == Init /\ [][Next]_vars

\* ------------------------------------- the history query over given tables
\* get_transaction_history is a function of table transactions and user_id.
\* HistorySpec applies it to every table that MaxRows recorded transfers of
\* alice (key k1) and bob (key k2) produce: row k is the transfer of
\* owners[k], carrying the hash of that wallet's next nonce.
OwnerKey(u) == IF u = "alice" THEN "k1" ELSE "k2"

EarlierOf(owners, k) == Cardinality({j \in 1..(k - 1) : owners[j] = owners[k]})

RecordedHash(owners, k) ==
    TxHash([to |-> to_checksum_address("0xR"), value |-> to_wei(1),
            gas |-> GasLimit, nonce |-> EarlierOf(owners, k)],
           OwnerKey(owners[k]))

LedgerOf(owners) ==
    [k \in 1..Len(owners) |->
        [tx_hash |-> Hex(RecordedHash(owners, k)), user_id |-> owners[k],
         recipient |-> "0xR", amount |-> 1, status |-> "pending"]]

OwnerSeqs == UNION {[1..n -> Users] : n \in 0..MaxRows}

WalletRow(u) ==
    [user_id |-> u, address |-> AddressOf(OwnerKey(u)),
     encrypted_private_key |-> B64Encode(Encrypt(GenerateKey(0), Hex(OwnerKey(u)))),
     created_at |-> CurrentTimestamp]

HistoryInit ==
    \E owners \in OwnerSeqs :
        /\ keyFile = GenerateKey(0)
        /\ keyWrites = 1
        /\ dbTables = TRUE
        /\ instances = <<GenerateKey(0)>>
        /\ wallets = <<WalletRow("alice"), WalletRow("bob")>>
        /\ transactions = LedgerOf(owners)
        /\ chainNonce = [a \in WalletAddresses |->
                            Cardinality({k \in 1..Len(owners) :
                                            AddressOf(OwnerKey(owners[k])) = a})]
        /\ mempool = [k \in 1..Len(owners) |-> RecordedHash(owners, k)]
        /\ last = [NoCall EXCEPT !.pre = [wallets |-> wallets,
                                          transactions |-> transactions,
                                          mempool |-> mempool]]
        /\ prevCreated = NoCreated
        /\ calls = [t \in Threads |-> Idle]

HistoryNext ==
    \E cipher \in Ciphers, u \in UserIds, env \in ReadEnvs :
        GetTransactionHistory(cipher, u, env)

HistorySpec == HistoryInit /\ [][HistoryNext]_vars

\* ------------------------------------------------------------- properties
HasWalletRow(table, user_id) == SelectWallet(table, user_id) # <<>>

ValidTransfer(call) == is_address(call.recipient) /\ call.amount > 0

\* C1: for an existing wallet, a well-formed recipient and a positive amount,
\* when every gateway and ledger step succeeds, send_transaction returns
\* status success with a tx_hash, and table transactions then holds a pending
\* row with that tx_hash, user_id, recipient and amount.
C1_SendSucceedsAndRecords ==
    ( /\ last.op = "send_transaction"
      /\ HasWalletRow(last.pre.wallets, last.user)
      /\ ValidTransfer(last)
      /\ last.envOk
      /\ Len(last.pre.mempool) < MaxBroadcasts )
    => /\ last.status = "success"
       /\ last.tx_hash # NoHash
       /\ \E k \in 1..Len(transactions) :
             /\ transactions[k].tx_hash = last.tx_hash
             /\ transactions[k].user_id = last.user
             /\ transactions[k].recipient = last.recipient
             /\ transactions[k].amount = last.amount
             /\ transactions[k].status = "pending"

\* C2: a create_wallet(user_id) that returns a summary, followed immediately
\* by get_wallet_info(user_id) with every external step succeeding, yields a
\* wallet record (not None) whose address is the one create_wallet returned.
C2_InfoAfterCreateReturnsWallet ==
    ( /\ last.op = "get_wallet_info"
      /\ prevCreated # NoCreated
      /\ prevCreated.user = last.user
      /\ last.envOk )
    => /\ last.value # None
       /\ last.address = prevCreated.address

\* C3: a create_wallet for a user_id that already has a wallet row returns
\* None, and afterwards table wallets holds exactly one row for that user_id,
\* the row (address, ciphertext) it held before the call.
C3_SecondCreateIsNoOp ==
    ( /\ last.op = "create_wallet"
      /\ HasWalletRow(last.pre.wallets, last.user) )
    => /\ last.value = None
       /\ Len(SelectWallet(wallets, last.user)) = 1
       /\ SelectWallet(wallets, last.user) = SelectWallet(last.pre.wallets, last.user)
       /\ wallets = last.pre.wallets

\* The second of two create_wallet calls in sequence for one user_id has
\* reached the INSERT and been refused.
C3_Witness ==
    /\ last.op = "create_wallet"
    /\ prevCreated # NoCreated
    /\ prevCreated.user = last.user
    /\ last.value = None
    /\ last.io # <<>>
    /\ last.io[Len(last.io)] = "ledger_write"
    /\ Len(SelectWallet(wallets, last.user)) = 1

\* C4: every row of table transactions carries the tx_hash of a broadcast the
\* gateway accepted; no two rows share a tx_hash; a send_transaction call
\* during which the gateway accepted no broadcast inserts no row, and a call
\* that inserts a row inserts one row, carrying the hash of the broadcast the
\* gateway accepted during that call.
C4_RecordOnlyAfterBroadcast ==
    /\ \A k \in 1..Len(transactions) :
          \E j \in 1..Len(mempool) : transactions[k].tx_hash = Hex(mempool[j])
    /\ \A k1, k2 \in 1..Len(transactions) :
          transactions[k1].tx_hash = transactions[k2].tx_hash => k1 = k2
    /\ last.op = "send_transaction" =>
          /\ mempool = last.pre.mempool => transactions = last.pre.transactions
          /\ transactions # last.pre.transactions =>
                /\ Len(mempool) = Len(last.pre.mempool) + 1
                /\ Len(transactions) = Len(last.pre.transactions) + 1
                /\ transactions[Len(transactions)].tx_hash = Hex(mempool[Len(mempool)])
                /\ SubSeq(transactions, 1, Len(last.pre.transactions))
                      = last.pre.transactions

\* A send_transaction call got past validation, failed before any broadcast
\* was accepted, and left table transactions as it was.
C4_Witness ==
    /\ last.op = "send_transaction"
    /\ ValidTransfer(last)
    /\ HasWalletRow(last.pre.wallets, last.user)
    /\ last.status = "error"
    /\ mempool = last.pre.mempool
    /\ transactions = last.pre.transactions

\* C5: send_transaction with a malformed recipient or an amount <= 0 returns
\* status error having performed no gateway RPC and no ledger read or write.
C5_InvalidTransferNoIO ==
    ( /\ last.op = "send_transaction"
      /\ ~ValidTransfer(last) )
    => /\ last.status = "error"
       /\ last.io = <<>>
       /\ wallets = last.pre.wallets
       /\ transactions = last.pre.transactions
       /\ mempool = last.pre.mempool

\* A send_transaction for an existing wallet and a well-formed recipient was
\* refused for its amount.
C5_Witness ==
    /\ last.op = "send_transaction"
    /\ HasWalletRow(wallets, last.user)
    /\ is_address(last.recipient)
    /\ last.amount <= 0
    /\ last.status = "error"

\* C6: send_transaction never raises: whatever fails, it returns status
\* success with a tx_hash or status error with a message.
C6_SendNeverRaises ==
    last.op = "send_transaction" =>
        /\ last.status \in {"success", "error"}
        /\ last.status = "success" => last.tx_hash # NoHash
        /\ last.status = "error" => last.message # ""

\* A send_transaction whose body raised returned the exception's text.
C6_Witness ==
    /\ last.op = "send_transaction"
    /\ last.status = "error"
    /\ last.message = "Invalid recipient or amount"

\* C7 as stated: send_transaction for a user_id without a wallet row returns
\* status error with message "Wallet not found", with no broadcast accepted
\* and no row inserted.
C7_NoWalletAlwaysNotFound ==
    ( /\ last.op = "send_transaction"
      /\ ~HasWalletRow(last.pre.wallets, last.user) )
    => /\ last.status = "error"
       /\ last.message = "Wallet not found"
       /\ mempool = last.pre.mempool
       /\ transactions = last.pre.transactions

\* C7 amended: send_transaction with a well-formed recipient and a positive
\* amount for a user_id without a wallet row returns status error with
\* message "Wallet not found", with no broadcast attempted and no row inserted.
C7_NoWalletValidTransfer ==
    ( /\ last.op = "send_transaction"
      /\ ValidTransfer(last)
      /\ ~HasWalletRow(last.pre.wallets, last.user) )
    => /\ last.status = "error"
       /\ last.message = "Wallet not found"
       /\ \A k \in 1..Len(last.io) : last.io[k] # "rpc_broadcast"
       /\ mempool = last.pre.mempool
       /\ transactions = last.pre.transactions

\* A valid transfer was requested for a well-formed user_id that has no
\* wallet while another user has one.
C7_Witness ==
    /\ last.op = "send_transaction"
    /\ ValidTransfer(last)
    /\ ValidUserId(last.user)
    /\ ~HasWalletRow(last.pre.wallets, last.user)
    /\ last.pre.wallets # <<>>
    /\ last.message = "Wallet not found"

\* The positions of the rows of user_id in a table.
RowsOf(table, user_id) == {k \in 1..Len(table) : table[k].user_id = user_id}

\* C8: when the ledger read succeeds, get_transaction_history(user_id)
\* returns the empty sequence if no row of table transactions belongs to
\* user_id, and otherwise one record per row of user_id, none of another
\* user, in the order of insertion.
C8_HistoryIsUsersRowsInOrder ==
    ( /\ last.op = "get_transaction_history"
      /\ last.envOk )
    => LET mine == RowsOf(transactions, last.user)
           h == last.value
       IN /\ mine = {} => h = <<>>
          /\ Len(h) = Cardinality(mine)
          /\ \A i \in 1..Len(h) :
                \E k \in mine : /\ h[i].tx_hash = transactions[k].tx_hash
                                /\ h[i].recipient = transactions[k].recipient
                                /\ h[i].amount_eth = transactions[k].amount
                                /\ h[i].status = transactions[k].status
          /\ \A i, j \in 1..Len(h) :
                i < j => \E k1, k2 \in mine :
                            /\ k1 < k2
                            /\ h[i].tx_hash = transactions[k1].tx_hash
                            /\ h[j].tx_hash = transactions[k2].tx_hash

\* The history of a user with two rows was returned while a row of another
\* user lay between them.
C8_Witness ==
    /\ last.op = "get_transaction_history"
    /\ last.envOk
    /\ Len(last.value) = 2
    /\ \E k \in 2..(Len(transactions) - 1) :
          /\ transactions[k].user_id # last.user
          /\ transactions[k - 1].user_id = last.user
          /\ transactions[k + 1].user_id = last.user

\* C9: over any sequence of constructions, key material is generated and
\* written to the key file at most once, exactly once as soon as one
\* construction has completed; every instance holds the key the file holds.
C9_KeyGeneratedOnce ==
    /\ keyWrites <= 1
    /\ (keyWrites = 0) = (keyFile = NoFile)
    /\ Len(instances) > 0 => keyWrites = 1
    /\ \A i \in 1..Len(instances) : instances[i] = keyFile
    /\ \A i, j \in 1..Len(instances) : instances[i] = instances[j]

\* Two constructions have completed, the second after the key file existed.
C9_Witness ==
    /\ Len(instances) >= 2
    /\ keyWrites = 1
    /\ last.op = "init"
    /\ last.status = "ok"

\* C10: a create_wallet or send_transaction call with a malformed user_id
\* (empty, or not a string) is rejected having performed no ledger read or
\* write and no gateway call.
C10_MalformedUserIdNoIO ==
    ( /\ last.op \in {"create_wallet", "send_transaction"}
      /\ ~ValidUserId(last.user) )
    => /\ last.status \in {"none", "error"}
       /\ last.io = <<>>

C12_ConnectionFailureAborts ==
    [][ (last'.op = "init" /\ last'.message = "ConnectionError") =>
          /\ last'.status = "raised"
          /\ last'.io = <<"rpc_is_connected">>
          /\ UNCHANGED <<dbTables, keyFile, keyWrites, instances>> ]_vars

\* The first construction failed its connection check: there are no tables,
\* no key file and no instance.
C12_Witness ==
    /\ last.op = "init"
    /\ last.message = "ConnectionError"
    /\ ~dbTables
    /\ keyFile = NoFile
    /\ instances = <<>>

IsPrefix(short, long) ==
    /\ Len(short) <= Len(long)
    /\ \A k \in 1..Len(short) : long[k] = short[k]

\* C17: create_wallet returns a summary or None, never raising; it returns a
\* summary exactly when the call appended one row for user_id to table
\* wallets, carrying the returned address; when it returns None the table is
\* as it was before the call.
C17_CreateResultMatchesEffect ==
    last.op = "create_wallet" =>
        /\ last.status \in {"ok", "none"}
        /\ last.value # None =>
              /\ Len(wallets) = Len(last.pre.wallets) + 1
              /\ IsPrefix(last.pre.wallets, wallets)
              /\ wallets[Len(wallets)].user_id = last.user
              /\ wallets[Len(wallets)].address = last.value.address
        /\ last.value = None => wallets = last.pre.wallets

\* A second user's wallet was created: a summary came back and the table
\* grew by that user's row.
C17_Witness ==
    /\ last.op = "create_wallet"
    /\ last.value # None
    /\ Len(last.pre.wallets) = 1
    /\ Len(wallets) = 2
    /\ wallets[2].user_id = last.user

\* C18: whatever the call, every row the tables held before it is still
\* there afterwards, at its place and with all its columns (address and
\* ciphertext of a wallet, tx_hash of a transaction); every transaction row
\* has status pending.
C18_RowsWriteOnce ==
    /\ IsPrefix(last.pre.wallets, wallets)
    /\ IsPrefix(last.pre.transactions, transactions)
    /\ \A k \in 1..Len(transactions) : transactions[k].status = "pending"

\* A create_wallet for a user_id that already had a row reached the INSERT
\* while the table held that row, which is still there.
C18_Witness ==
    /\ last.op = "create_wallet"
    /\ HasWalletRow(last.pre.wallets, last.user)
    /\ last.io # <<>>
    /\ last.io[Len(last.io)] = "ledger_write"
    /\ wallets = last.pre.wallets
    /\ Len(wallets) = 2

\* --------------------------------------------- interleaved create_wallet
\* Two threads call create_wallet on one constructed service.  A call takes
\* two steps, each one database transaction: the existence check (l.79-85)
\* and the INSERT with what precedes and follows it (l.88-106).
RaceInit ==
    /\ keyFile = GenerateKey(0)
    /\ keyWrites = 1
    /\ dbTables = TRUE
    /\ instances = <<GenerateKey(0)>>
    /\ wallets = <<>>
    /\ transactions = <<>>
    /\ chainNonce = [a \in WalletAddresses |-> 0]
    /\ mempool = <<>>
    /\ last = NoCall
    /\ prevCreated = NoCreated
    /\ calls = [t \in Threads |-> Idle]

Finished(call, status, message) ==
    [call EXCEPT !.pc = "done", !.status = status, !.message = message]

\* A thread enters create_wallet(user_id); pk is what Account.create() will draw.
CreateBegin(t, user_id, pk) ==
    /\ calls[t].pc \in {"idle", "done"}
    /\ calls' = [calls EXCEPT ![t] = [Idle EXCEPT !.op = "create_wallet", !.pc = "check",
                                                  !.user = user_id, !.pk = pk]]
    /\ UNCHANGED <<keyFile, keyWrites, dbTables, instances, wallets, transactions,
                   chainNonce, mempool, last, prevCreated>>

\* Lines 79-85: validate user_id, then `if self.get_wallet_info(user_id)`.
\* seen keeps whether the table held a row of user_id at that moment.
CreateCheck(t, env) ==
    LET c == calls[t] IN
    /\ c.op = "create_wallet"
    /\ c.pc = "check"
    /\ calls' = [calls EXCEPT ![t] =
          IF ~ValidUserId(c.user)
          THEN Finished(c, "none", "Invalid user_id")
          ELSE IF get_wallet_info(c.user, env).value # None
          THEN Finished(c, "none", "already exists")
          ELSE [c EXCEPT !.pc = "insert", !.seen = HasWalletRow(wallets, c.user)]]
    /\ UNCHANGED <<keyFile, keyWrites, dbTables, instances, wallets, transactions,
                   chainNonce, mempool, last, prevCreated>>

\* Lines 88-106: generate and encrypt the key, INSERT and commit, return the
\* summary; any exception returns None (l.107-109).
CreateInsert(t, dbOk) ==
    LET c == calls[t]
        address == AddressOf(c.pk)
        ins == InsertWallet(wallets,
                            [user_id |-> c.user, address |-> address,
                             encrypted_private_key |->
                                 B64Encode(Encrypt(instances[1], Hex(c.pk))),
                             created_at |-> CurrentTimestamp],
                            dbOk)
    IN
    /\ c.op = "create_wallet"
    /\ c.pc = "insert"
    /\ IF c.pk = GenFail
       THEN /\ calls' = [calls EXCEPT ![t] = Finished(c, "none", "CryptoFailure")]
            /\ UNCHANGED wallets
       ELSE IF ~ins.ok
       THEN /\ calls' = [calls EXCEPT ![t] = Finished(c, "none", "sqlite3.Error")]
            /\ UNCHANGED wallets
       ELSE /\ calls' = [calls EXCEPT ![t] =
                            [Finished(c, "ok", "") EXCEPT !.address = address]]
            /\ wallets' = ins.table
    /\ UNCHANGED <<keyFile, keyWrites, dbTables, instances, transactions,
                   chainNonce, mempool, last, prevCreated>>

CreateRaceNext ==
    \/ \E t \in Threads, u \in UserIds, pk \in PrivKeys \cup {GenFail} :
          CreateBegin(t, u, pk)
    \/ \E t \in Threads, env \in InfoEnvs : CreateCheck(t, env)
    \/ \E t \in Threads, dbOk \in BOOLEAN : CreateInsert(t, dbOk)

CreateRaceSpec == RaceInit /\ [][CreateRaceNext]_vars

\* C13: table wallets never holds two rows of one user_id, also when two
\* create_wallet calls for it interleave between the existence check and the
\* INSERT; of two finished calls for one user_id at most one returned a
\* summary.
C13_OneWalletPerUser ==
    /\ \A u \in UserIds : Len(SelectSeq(wallets, LAMBDA r : r.user_id = u)) <= 1
    /\ \A t1, t2 \in Threads :
          ( /\ t1 # t2
            /\ calls[t1].op = "create_wallet" /\ calls[t1].pc = "done"
            /\ calls[t2].op = "create_wallet" /\ calls[t2].pc = "done"
            /\ calls[t1].user = calls[t2].user )
          => ~(calls[t1].status = "ok" /\ calls[t2].status = "ok")

\* Both threads checked for the same user_id while the table held no row of
\* it, both then ran the INSERT: one returned a summary, the other None, and
\* the table holds one row.
C13_Witness ==
    /\ calls["t1"].op = "create_wallet" /\ calls["t1"].pc = "done"
    /\ calls["t2"].op = "create_wallet" /\ calls["t2"].pc = "done"
    /\ calls["t1"].user = calls["t2"].user
    /\ ~calls["t1"].seen /\ ~calls["t2"].seen
    /\ calls["t1"].status = "ok"
    /\ calls["t2"].status = "none" /\ calls["t2"].message = "sqlite3.Error"
    /\ Len(SelectSeq(wallets, LAMBDA r : r.user_id = calls["t1"].user)) = 1

\* ------------------------------------------- interleaved send_transaction
\* Two threads call send_transaction on one constructed service whose table
\* wallets already holds alice's row.  The stored created_at is drawn from what
\* the schema admits: the text CURRENT_TIMESTAMP left, or NULL.
StoredCreatedAt == {CurrentTimestamp, Null}

SendRaceInit ==
    /\ keyFile = GenerateKey(0)
    /\ keyWrites = 1
    /\ dbTables = TRUE
    /\ instances = <<GenerateKey(0)>>
    /\ \E created_at \in StoredCreatedAt :
          wallets = << [user_id |-> "alice", address |-> AddressOf("k1"),
                        encrypted_private_key |->
                            B64Encode(Encrypt(GenerateKey(0), Hex("k1"))),
                        created_at |-> created_at] >>
    /\ transactions = <<>>
    /\ chainNonce = [a \in WalletAddresses |-> 0]
    /\ mempool = <<>>
    /\ last = NoCall
    /\ prevCreated = NoCreated
    /\ calls = [t \in Threads |-> Idle]

\* The gateway faults the build step can meet (l.138-140).
BuildEnvs == {e \in SendEnvs : e.dbRead /\ e.dbWrite /\ e.balOk /\ e.bcast}

SendBegin(t, user_id, recipient, amount_eth) ==
    /\ calls[t].pc \in {"idle", "done"}
    /\ calls' = [calls EXCEPT ![t] = [Idle EXCEPT !.op = "send_transaction", !.pc = "lookup",
                                                  !.user = user_id,
                                                  !.recipient = recipient,
                                                  !.amount = amount_eth]]
    /\ UNCHANGED <<keyFile, keyWrites, dbTables, instances, wallets, transactions,
                   chainNonce, mempool, last, prevCreated>>

\* Lines 125-132: validate, look the wallet up, decrypt its key.
SendLookup(t, env) ==
    LET c == calls[t]
        info == get_wallet_info(c.user, env)
        token == B64Decode(info.value.encrypted_private_key)
    IN
    /\ c.op = "send_transaction"
    /\ c.pc = "lookup"
    /\ calls' = [calls EXCEPT ![t] =
          IF ~is_address(c.recipient) \/ c.amount <= 0
          THEN Finished(c, "error", "Invalid recipient or amount")
          ELSE IF info.value = None
          THEN Finished(c, "error", "Wallet not found")
          ELSE IF ~DecryptOk(instances[1], token)
          THEN Finished(c, "error", "InvalidToken")
          ELSE [c EXCEPT !.pc = "build",
                         !.pk = UnHex(Decrypt(instances[1], token)),
                         !.address = info.value.address]]
    /\ UNCHANGED <<keyFile, keyWrites, dbTables, instances, wallets, transactions,
                   chainNonce, mempool, last, prevCreated>>

\* Lines 134-141: the transaction dict; the nonce is read from the gateway.
\* raced keeps whether another call then held the same nonce, read for the
\* same account and not yet broadcast.
SendBuild(t, env) ==
    LET c == calls[t]
        nonce == get_transaction_count(c.address)
    IN
    /\ c.op = "send_transaction"
    /\ c.pc = "build"
    /\ calls' = [calls EXCEPT ![t] =
          IF ~env.gas
          THEN Finished(c, "error", "RpcFailure: gas_price")
          ELSE IF ~env.nonce
          THEN Finished(c, "error", "RpcFailure: get_transaction_count")
          ELSE IF ~env.chain
          THEN Finished(c, "error", "RpcFailure: chain_id")
          ELSE [c EXCEPT !.pc = "broadcast",
                         !.nonce = nonce,
                         !.raced = \E u \in Threads \ {t} :
                                      /\ calls[u].op = "send_transaction"
                                      /\ calls[u].pc = "broadcast"
                                      /\ calls[u].address = c.address
                                      /\ calls[u].nonce = nonce]]
    /\ UNCHANGED <<keyFile, keyWrites, dbTables, instances, wallets, transactions,
                   chainNonce, mempool, last, prevCreated>>

\* Lines 143-144: sign and send_raw_transaction.
SendBroadcast(t, bcast) ==
    LET c == calls[t]
        tx == [to |-> to_checksum_address(c.recipient), value |-> to_wei(c.amount),
               gas |-> GasLimit, nonce |-> c.nonce]
        tx_hash == TxHash(tx, c.pk)
        accepted == bcast /\ Len(mempool) < MaxBroadcasts
    IN
    /\ c.op = "send_transaction"
    /\ c.pc = "broadcast"
    /\ IF accepted
       THEN /\ mempool' = Append(mempool, tx_hash)
            /\ chainNonce' = [chainNonce EXCEPT ![c.address] = @ + 1]
            /\ calls' = [calls EXCEPT ![t] =
                  [c EXCEPT !.pc = "record", !.sent = TRUE, !.accepted = TRUE,
                            !.tx_hash = Hex(tx_hash)]]
       ELSE /\ calls' = [calls EXCEPT ![t] =
                  [Finished(c, "error", "RpcFailure: send_raw_transaction")
                      EXCEPT !.sent = TRUE]]
            /\ UNCHANGED <<mempool, chainNonce>>
    /\ UNCHANGED <<keyFile, keyWrites, dbTables, instances, wallets, transactions,
                   last, prevCreated>>

\* Lines 146-159: the parameters of the INSERT are evaluated, int(time.time())
\* among them, then the record is inserted and the success dict returned.
SendRecord(t, dbOk) ==
    LET c == calls[t]
        ins == InsertTransaction(transactions,
                                 [tx_hash |-> c.tx_hash, user_id |-> c.user,
                                  recipient |-> c.recipient, amount |-> c.amount,
                                  status |-> "pending"],
                                 dbOk)
    IN
    /\ c.op = "send_transaction"
    /\ c.pc = "record"
    /\ IF ~TimeImported
       THEN /\ calls' = [calls EXCEPT ![t] =
                  Finished(c, "error", "NameError: name 'time' is not defined")]
            /\ UNCHANGED transactions
       ELSE IF ~ins.ok
       THEN /\ calls' = [calls EXCEPT ![t] = Finished(c, "error", "sqlite3.Error")]
            /\ UNCHANGED transactions
       ELSE /\ calls' = [calls EXCEPT ![t] = Finished(c, "success", "")]
            /\ transactions' = ins.table
    /\ UNCHANGED <<keyFile, keyWrites, dbTables, instances, wallets,
                   chainNonce, mempool, last, prevCreated>>

SendRaceNext ==
    \/ \E t \in Threads, u \in Users, r \in Recipients, a \in Amounts :
          SendBegin(t, u, r, a)
    \/ \E t \in Threads, env \in InfoEnvs : SendLookup(t, env)
    \/ \E t \in Threads, env \in BuildEnvs : SendBuild(t, env)
    \/ \E t \in Threads, bcast \in BOOLEAN : SendBroadcast(t, bcast)
    \/ \E t \in Threads, dbOk \in BOOLEAN : SendRecord(t, dbOk)

SendRaceSpec == SendRaceInit /\ [][SendRaceNext]_vars

InitExists(t) ==
    /\ calls[t].pc = "idle"
    /\ dbTables' = _setup_database(dbTables)
    /\ calls' = [calls EXCEPT ![t] = [Idle EXCEPT !.op = "init", !.pc = "key",
                                                  !.seen = (keyFile # NoFile)]]
    /\ UNCHANGED <<keyFile, keyWrites, instances, wallets, transactions,
                   chainNonce, mempool, last, prevCreated>>

\* Lines 67-73: read the file if it was found, else generate a key and write
\* it, replacing what the file holds.  key is the material of this instance.
InitKey(t) ==
    LET c == calls[t]
        k == _load_or_create_encryption_key(IF c.seen THEN keyFile ELSE NoFile, keyWrites)
    IN
    /\ c.op = "init"
    /\ c.pc = "key"
    /\ keyFile' = k.file
    /\ keyWrites' = keyWrites + k.writes
    /\ calls' = [calls EXCEPT ![t] = [c EXCEPT !.pc = "ready", !.key = k.key]]
    /\ UNCHANGED <<dbTables, instances, wallets, transactions,
                   chainNonce, mempool, last, prevCreated>>

Ready(t) == calls[t].op = "init" /\ calls[t].pc = "ready"

InitRaceNext ==
    \/ \E t \in Threads : InitExists(t)
    \/ \E t \in Threads : InitKey(t)
    \/ \E t \in Threads, u \in Users, pk \in PrivKeys, env \in CreateEnvs :
          Ready(t) /\ CreateWallet(calls[t].key, u, pk, env)
    \/ \E connected \in BOOLEAN :
          (\A t \in Threads : Ready(t)) /\ NewCryptoWallet(TRUE, connected)

InitRaceSpec == Init /\ [][InitRaceNext]_vars

\* The stored rows that the key material held by the file does not decrypt.
Orphaned ==
    {i \in 1..Len(wallets) : B64Decode(wallets[i].encrypted_private_key).fkey # keyFile}

\* C16: when both initialisations of a first run found the key file absent,
\* each generated and wrote its own key: the two instances hold different
\* keys and the file holds the one written last.  Every instance started
\* later holds the file's key, so a row the other instance encrypted
\* decrypts in none of them.
C16_FirstRunRace ==
    /\ ( /\ Ready("t1") /\ Ready("t2")
         /\ ~calls["t1"].seen /\ ~calls["t2"].seen )
       => /\ keyWrites = 2
          /\ calls["t1"].key # calls["t2"].key
          /\ keyFile \in {calls["t1"].key, calls["t2"].key}
    /\ \A n \in 1..Len(instances) :
          /\ instances[n] = keyFile
          /\ \A i \in Orphaned :
                ~DecryptOk(instances[n], B64Decode(wallets[i].encrypted_private_key))

\* Both initialisations found the file absent, the instance whose key was
\* overwritten stored a wallet, and an instance was started afterwards.
C16_Witness ==
    /\ Ready("t1") /\ Ready("t2")
    /\ ~calls["t1"].seen /\ ~calls["t2"].seen
    /\ keyWrites = 2
    /\ Len(instances) >= 1
    /\ \E i \in Orphaned :
          /\ B64Decode(wallets[i].encrypted_private_key).fkey
                \in {calls["t1"].key, calls["t2"].key}
          /\ ~DecryptOk(instances[1], B64Decode(wallets[i].encrypted_private_key))

====
